---- MODULE Spec2Model ----
(***************************************************************************)
(* MultiObjectTracker of object_tracker_controller_service_node.cpp: the   *)
(* staged initialization (Initialize) and the per-frame update (Filter) of *)
(* one tracker instance, called by concurrent threads; and the request     *)
(* handler track_object_srv of the controller service node of the same     *)
(* file, which stops and restarts the tracker.                             *)
(*                                                                         *)
(* The coordinate particle filter behind filter_ (state_filtering) is not  *)
(* part of the file.  Its operations are modelled by the operators         *)
(* Propagate, FilterOutcomes and ResampleOutcomes from sections 4.3 to 4.5 *)
(* of the specification; everything else follows the source line by line. *)
(***************************************************************************)
EXTENDS Integers, Sequences, FiniteSets, TLC

\* ------------------------------------------------------------------ bounds
MaxObjects == 2
MaxCand == 2
MaxEval == 2
MaxTime == 2
MaxCalls == 4
MaxConcurrentCalls == 3
MaxGpuBuildCalls == 3
MaxRequests == 2
MaxPose == 2

\* degrees of freedom per object: object_names_.size()*6
BodyDim == 6

Threads == {"t1", "t2"}
\* image heights of the frames handed to Filter, and of the first frame
FrameRows == {2, 4}
FirstFrameRows == {4}
DownsamplingFactors == {2}

VARIABLES
    object_count,            \* object_names_.size()
    downsampling_factor_,
    evaluation_count,        \* parameter server: "evaluation_count"
    sampling_blocks,         \* parameter server: "sampling_blocks"
    last_measurement_time_,
    filter_,
    mutex_,                  \* set of threads holding mutex_
    crashed,                 \* the process was terminated
    ncalls,                  \* calls made so far
    build_gpu,               \* the node was compiled with BUILD_GPU
    callers,                 \* the threads that call the tracker
    budget,                  \* calls the callers make in all
    session,                 \* filter steps of Filter since Initialize last returned;
                             \* `first`: the clock was unset when the call began
    initialized,             \* some Initialize call has returned
    failures,                \* some call ended in an exception
    pc,
    call,                    \* per thread: arguments, locals and trace of its call
    done,                    \* the call that ended last
    \* the controller service node
    req,                     \* the request track_object_srv is serving
    handler,                 \* where track_object_srv is
    pose,                    \* its local `pose`
    poses,                   \* object_initializer->poses()[0]
    calls,                   \* the calls it made for this request, in order
    tracking,                \* what the tracker service is tracking
    answer,                  \* the request that ended last, and its result
    nreq                     \* requests served so far

\* the state of the controller node, which no method of the tracker touches
node == <<req, handler, pose, poses, calls, tracking, answer, nreq>>

\* the state of the tracker instance, which the controller node does not touch
instance == <<object_count, downsampling_factor_, evaluation_count, sampling_blocks,
              build_gpu, callers, budget,
              last_measurement_time_, filter_, mutex_, crashed, ncalls, session,
              initialized, failures, pc, call, done>>

vars == <<object_count, downsampling_factor_, evaluation_count, sampling_blocks,
          build_gpu, callers, budget,
          last_measurement_time_, filter_, mutex_, crashed, ncalls, session,
          initialized, failures, pc, call, done,
          req, handler, pose, poses, calls, tracking, answer, nreq>>

params == <<object_count, downsampling_factor_, evaluation_count, sampling_blocks,
            build_gpu, callers, budget, node>>

\* ------------------------------------------------------------------ values
\* Scalar with quiet_NaN
NaN == [nan |-> TRUE, v |-> 0]
Num(x) == [nan |-> FALSE, v |-> x]

\* poses of one object slot of a joint state
Sentinel == [kind |-> "out_of_image", idx |-> 0, part |-> 0]
Candidate(i) == [kind |-> "candidate", idx |-> i, part |-> 0]
CandidatePart(i, b) == [kind |-> "candidate_part", idx |-> i, part |-> b]
Propagated == [kind |-> "propagated", idx |-> 0, part |-> 0]

Objects(k) == 0 .. (k - 1)

\* ProcessModel::Input::Zero(n)
ZeroInput(n) == [i \in 1 .. n |-> 0]

\* the single block of all state indices
DependentSamplingBlocks(k) == << [i \in 1 .. (k * BodyDim) |-> i - 1] >>

ObjectBlock(b) == [i \in 1 .. BodyDim |-> b * BodyDim + i - 1]

PerObjectBlocks(k) == [b \in 1 .. k |-> ObjectBlock(b - 1)]

\* a schedule that repeats the block of object 0: for k > 1 it misses indices,
\* and it names every index of object 0 twice
RepeatedBlocks == << ObjectBlock(0), ObjectBlock(0) >>

SamplingBlockConfigs(k) == {PerObjectBlocks(k), DependentSamplingBlocks(k), RepeatedBlocks}

\* how often index x occurs in the schedule
Occurrences(blocks, x) ==
    Cardinality({ p \in UNION { {b} \X DOMAIN blocks[b] : b \in DOMAIN blocks } :
                      blocks[p[1]][p[2]] = x })

CoversExactlyOnce(blocks, k) ==
    \A x \in 0 .. (k * BodyDim - 1) : Occurrences(blocks, x) = 1

\* the object slots a schedule touches
TouchedObjects(blocks, k) ==
    { o \in Objects(k) : \E b \in DOMAIN blocks : \E i \in DOMAIN blocks[b] :
                             blocks[b][i] \div BodyDim = o }

\* ri::Ros2Eigen: the image downsampled by the factor
Ros2Eigen(rows, factor) == rows \div factor

\* the division by the number of blocks left out
OperatingSizeUndivided(count, blocks) == count

\* evaluation_count/sampling_blocks.size()
OperatingSize(count, blocks) == count \div Len(blocks)

\* ------------------------------------------- the filter behind filter_
\* process model on one sample: identity for zero elapsed time, otherwise a
\* new value in every object slot the active schedule touches
Propagate(sample, blocks, dt, k) ==
    IF dt = 0 THEN sample
    ELSE [o \in Objects(k) |->
             IF o \in TouchedObjects(blocks, k) THEN Propagated ELSE sample[o]]

Select(pop, f) == [i \in DOMAIN f |-> pop[f[i]]]

\* the ways to draw n samples out of m, in the order of the source population
Selections(n, m) ==
    { f \in [1 .. n -> 1 .. m] : \A i, j \in 1 .. n : i < j => f[i] <= f[j] }

\* populations a filter step can leave: every sample propagated, then
\* weighted, then kept or resampled to the same size
FilterOutcomes(pop, blocks, dt, k) ==
    LET moved == [i \in DOMAIN pop |-> Propagate(pop[i], blocks, dt, k)]
    IN  { Select(moved, f) : f \in Selections(Len(moved), Len(moved)) }

\* populations Resample(n) can leave
ResampleOutcomes(pop, n) == { Select(pop, f) : f \in Selections(n, Len(pop)) }

NoFilter == [exists |-> FALSE, samples |-> <<>>, blocks |-> <<>>,
             rows |-> 0, capacity |-> 0, gpu |-> FALSE]

\* new FilterType(process, observation_model, sampling_blocks, max_kl_divergence)
NewFilter(rows, capacity, blocks, gpu) ==
    [exists |-> TRUE, samples |-> <<>>, blocks |-> blocks,
     rows |-> rows, capacity |-> capacity, gpu |-> gpu]

\* what can go wrong in a filter step (section 7): every weight zero or
\* non-finite after scoring, or the scorer not available
StepFailures == {"degenerate", "unavailable"}

\* ------------------------------------------------------------ call records
Entry(op, n, control, sched, body) ==
    [op |-> op, n |-> n, control |-> control, sched |-> sched, body |-> body]

NoCall == [op |-> "none", partial |-> FALSE, ncand |-> 0, rows |-> 0,
           stamp |-> 0, body_index |-> 0, multi_body_samples |-> <<>>,
           returned |-> <<>>, entry_clock |-> NaN, entry_exists |-> FALSE,
           entry_rows |-> 0, entry_samples |-> <<>>, delta_time |-> 0,
           cause |-> "none", log |-> <<>>]

\* what is kept of a call that ended
Ended(c, result, log, clock, flt) ==
    [op |-> c.op, result |-> result, partial |-> c.partial, ncand |-> c.ncand,
     rows |-> c.rows, stamp |-> c.stamp, entry_clock |-> c.entry_clock,
     entry_exists |-> c.entry_exists, entry_rows |-> c.entry_rows,
     belief_kept |-> (flt.samples = c.entry_samples),
     delta_time |-> c.delta_time, exit_clock |-> clock, cause |-> c.cause,
     log |-> log]

Logged(t, e) == Append(call[t].log, e)

\* ------------------------------------------- values of the controller node
\* req.object_name: "stop", or the name of an object
ObjectNames == {"stop", "box"}

Requests == [object_name : ObjectNames, auto_detect : BOOLEAN, auto_confirm : BOOLEAN]

NoRequest == [object_name |-> "", auto_detect |-> FALSE, auto_confirm |-> FALSE]

\* poses an object can be found or put at; 0 is the default-constructed pose
Poses == 1 .. MaxPose

\* geometry_msgs::PoseStamped pose, default constructed
NoPose == [header |-> "none", pose |-> 0]

\* req.object_name + ".obj"
ObjFile(name) == name \o ".obj"

\* one call made by the handler: to the tracker service, the finder service
\* or the pose initializer
Call(to, name, p, ok) == [to |-> to, name |-> name, pose |-> p, ok |-> ok]

NoAnswer == [req |-> NoRequest, calls |-> <<>>, result |-> FALSE]

\* before main has advertised the service and a request has come
Idle ==
    /\ req = NoRequest
    /\ handler = "spin"
    /\ pose = NoPose
    /\ poses = 0
    /\ calls = <<>>
    /\ tracking = "unknown"
    /\ answer = NoAnswer
    /\ nreq = 0

\* ------------------------------------------------------------------- Init
Start ==
    /\ Idle
    /\ object_count \in 1 .. MaxObjects
    /\ downsampling_factor_ \in DownsamplingFactors
    /\ evaluation_count \in 0 .. MaxEval
    /\ sampling_blocks \in SamplingBlockConfigs(object_count)
    /\ last_measurement_time_ = NaN
    /\ filter_ = NoFilter
    /\ mutex_ = {}
    /\ crashed = FALSE
    /\ ncalls = 0
    /\ session = <<>>
    /\ initialized = FALSE
    /\ failures = FALSE
    /\ pc = [t \in Threads |-> "idle"]
    /\ call = [t \in Threads |-> NoCall]
    /\ done = Ended(NoCall, "none", <<>>, NaN, NoFilter)

\* One caller: the calls of the instance one after the other.  What a call
\* does is studied here; that concurrent calls are executed one after the
\* other is the subject of the specification with two callers.
Init == Start /\ callers = {"t1"} /\ budget = MaxCalls /\ build_gpu = FALSE

\* two threads calling the same instance
InitConcurrent ==
    Start /\ callers = Threads /\ budget = MaxConcurrentCalls /\ build_gpu = FALSE

\* one caller of an instance in a node compiled with BUILD_GPU, where the
\* parameter use_gpu chooses the scorer at every Initialize
InitGpuBuild ==
    Start /\ callers = {"t1"} /\ budget = MaxGpuBuildCalls /\ build_gpu = TRUE

\* ------------------------------------------------------------ the callers
CallInitialize(t) ==
    /\ ~crashed /\ t \in callers /\ pc[t] = "idle" /\ ncalls < budget
    /\ ncalls' = ncalls + 1
    /\ pc' = [pc EXCEPT ![t] = "init_lock"]
    /\ call' = [call EXCEPT ![t] = [NoCall EXCEPT !.op = "Initialize"]]
    /\ UNCHANGED <<params, last_measurement_time_, filter_, mutex_, crashed,
                   session, initialized, done, failures>>

CallFilter(t) ==
    /\ ~crashed /\ t \in callers /\ pc[t] = "idle" /\ ncalls < budget
    /\ ncalls' = ncalls + 1
    /\ pc' = [pc EXCEPT ![t] = "filter_lock"]
    /\ call' = [call EXCEPT ![t] = [NoCall EXCEPT !.op = "Filter"]]
    /\ UNCHANGED <<params, last_measurement_time_, filter_, mutex_, crashed,
                   session, initialized, done, failures>>

\* a lock that never waits
CanLockAlways(holders) == TRUE

\* boost::mutex::scoped_lock lock(mutex_) can return
CanLock(holders) == holders = {}

\* the scoped_lock is destroyed: return or stack unwinding
Unlocked(t) == mutex_ \ {t}

\* a lock that an exception leaves locked
HeldAfterThrow(t) == mutex_

\* lines 269 and 439: the lock is a scoped_lock, a local of the call, so
\* stack unwinding destroys it
Unwound(t) == mutex_ \ {t}

\* an exception leaves the call
Throw(t, c, log, clock, flt) ==
    /\ pc' = [pc EXCEPT ![t] = "idle"]
    /\ mutex_' = Unwound(t)
    /\ call' = [call EXCEPT ![t] = NoCall]
    /\ failures' = TRUE
    /\ done' = Ended(c, "exception", Append(log, Entry("throw", 0, <<>>, <<>>, 0)),
                     clock, flt)

\* ------------------------------------------------------------- Initialize
\* line 269; the arguments of the call are drawn here, where they are first read
InitializeLock(t) ==
    /\ ~crashed /\ pc[t] = "init_lock"
    /\ CanLock(mutex_)
    /\ mutex_' = mutex_ \cup {t}
    /\ \E partial \in BOOLEAN, n \in 1 .. MaxCand, rows \in FirstFrameRows :
           call' = [call EXCEPT ![t].partial = partial,
                                ![t].ncand = n,
                                ![t].rows = rows,
                                ![t].entry_clock = last_measurement_time_,
                                ![t].entry_exists = filter_.exists,
                                ![t].entry_rows = filter_.rows]
    /\ pc' = [pc EXCEPT ![t] = "init_setup"]
    /\ UNCHANGED <<params, last_measurement_time_, filter_, crashed, ncalls,
                   session, initialized, done, failures>>

\* the initialization run with the configured schedule
InitialScheduleConfigured(k, blocks) == blocks

\* lines 390-395: "for the initialization we do standard sampling"
InitialSchedule(k, blocks) == DependentSamplingBlocks(k)

\* multi_body_samples filled with default_state
DefaultSamples(n, k) == [s \in 1 .. n |-> [o \in Objects(k) |-> Sentinel]]

\* lines 276 and 322-324: the parameter use_gpu, forced to false in a build
\* without BUILD_GPU
UseGpu(build) == IF build THEN BOOLEAN ELSE {FALSE}

\* line 281: the parameter max_sample_count, which only the GPU scorer reads
MaxSampleCounts(use_gpu) == IF use_gpu THEN 1 .. MaxEval ELSE {0}

\* lines 326-368: the sample capacity the scorer is constructed with
Capacity(use_gpu, ncand, max_sample_count) ==
    IF use_gpu THEN max_sample_count ELSE ncand

\* lines 271-405: image conversion, parameters, meshes, models, the new filter,
\* the full-joint schedule, and in partial mode the default samples
InitializeSetup(t) ==
    /\ ~crashed /\ pc[t] = "init_setup"
    /\ \/ \* ObjectFileReader::Read fails
          /\ UNCHANGED filter_
          /\ Throw(t, [call[t] EXCEPT !.cause = "mesh"], call[t].log,
                   last_measurement_time_, filter_)
       \/ /\ \E use_gpu \in UseGpu(build_gpu) :
                 \E max_sample_count \in MaxSampleCounts(use_gpu) :
                     filter_' = [NewFilter(Ros2Eigen(call[t].rows, downsampling_factor_),
                                           Capacity(use_gpu, call[t].ncand,
                                                    max_sample_count),
                                           sampling_blocks, use_gpu)
                                    EXCEPT !.blocks = InitialSchedule(object_count,
                                                                      sampling_blocks)]
          /\ call' = [call EXCEPT
                 ![t].log = Logged(t, Entry("SamplingBlocks", 0, <<>>,
                                            InitialSchedule(object_count, sampling_blocks), 0)),
                 ![t].body_index = 0,
                 ![t].multi_body_samples =
                     IF call[t].partial
                     THEN DefaultSamples(call[t].ncand, object_count)
                     ELSE <<>>,
                 ![t].returned =
                     IF call[t].partial
                     THEN DefaultSamples(call[t].ncand, object_count)
                     ELSE <<>>]
          /\ pc' = [pc EXCEPT ![t] = IF call[t].partial THEN "stage_inject" ELSE "full_seed"]
          /\ UNCHANGED <<mutex_, done, failures>>
    /\ UNCHANGED <<params, last_measurement_time_, crashed, ncalls, session, initialized>>

\* the candidates read from the second on
InitialStateOffByOne(s, n) ==
    IF s + 1 <= n THEN Candidate(s + 1)
    ELSE [kind |-> "out_of_bounds", idx |-> s + 1, part |-> 0]

\* initial_states[state_index]; past the end of the vector the read is garbage
InitialState(s, n) ==
    IF s <= n THEN Candidate(s) ELSE [kind |-> "out_of_bounds", idx |-> s, part |-> 0]

\* the full state built from default_state instead of the current sample
InjectCandidateIntoDefault(sample, body_index, initial_state) ==
    [o \in DOMAIN sample |-> IF o = body_index THEN initial_state ELSE Sentinel]

\* lines 413-415: full_initial_state[body_index] = initial_states[state_index]
InjectCandidate(sample, body_index, initial_state) ==
    [sample EXCEPT ![body_index] = initial_state]

\* lines 411-417: the candidates of the stage's object into every sample, then
\* filter_->Samples(multi_body_samples)
StageInject(t) ==
    /\ ~crashed /\ pc[t] = "stage_inject"
    /\ LET c == call[t]
           injected == [s \in DOMAIN c.multi_body_samples |->
                           InjectCandidate(c.multi_body_samples[s], c.body_index,
                                           InitialState(s, c.ncand))]
       IN  /\ filter_' = [filter_ EXCEPT !.samples = injected]
           /\ call' = [call EXCEPT
                  ![t].multi_body_samples = injected,
                  ![t].log = Logged(t, Entry("Samples", Len(injected), <<>>,
                                             filter_.blocks, c.body_index))]
    /\ pc' = [pc EXCEPT ![t] = "stage_filter"]
    /\ UNCHANGED <<params, last_measurement_time_, mutex_, crashed, ncalls,
                   session, initialized, done, failures>>

\* the schedule a filter step runs with
ActiveSchedule(flt) == flt.blocks

\* the time since the clock handed to the steps of the initialization
InitializationDeltaTimeFromClock(last) == IF last.nan THEN 0 ELSE last.v

\* lines 418 and 431: the literal 0.0 handed to filter_->Filter
InitializationDeltaTime(last) == 0

\* line 418: filter_->Filter(image, 0.0, Zero(object_names_.size()*6))
StageFilter(t) ==
    /\ ~crashed /\ pc[t] = "stage_filter"
    /\ LET log == Logged(t, Entry("Filter",
                                  InitializationDeltaTime(last_measurement_time_),
                                  ZeroInput(object_count * BodyDim),
                                  ActiveSchedule(filter_), call[t].body_index))
       IN  \/ /\ UNCHANGED filter_
              /\ \E cause \in StepFailures :
                     Throw(t, [call[t] EXCEPT !.cause = cause], log,
                           last_measurement_time_, filter_)
           \/ /\ \E pop \in FilterOutcomes(filter_.samples, ActiveSchedule(filter_),
                                           InitializationDeltaTime(last_measurement_time_),
                                           object_count) :
                     filter_' = [filter_ EXCEPT !.samples = pop]
              /\ call' = [call EXCEPT ![t].log = log]
              /\ pc' = [pc EXCEPT ![t] = "stage_resample"]
              /\ UNCHANGED <<mutex_, done, failures>>
    /\ UNCHANGED <<params, last_measurement_time_, crashed, ncalls, session, initialized>>

\* a stage that resamples to the operating size instead
StageTargetOperating(c) == OperatingSize(evaluation_count, sampling_blocks)

\* the size a stage resamples to: multi_body_samples.size()
StageTarget(c) == Len(c.multi_body_samples)

\* lines 419-421 and the loop increment: Resample, read the samples back
StageResample(t) ==
    /\ ~crashed /\ pc[t] = "stage_resample"
    /\ LET c == call[t]
           log == Logged(t, Entry("Resample", StageTarget(c), <<>>,
                                  ActiveSchedule(filter_), c.body_index))
       IN  \/ /\ UNCHANGED filter_
              /\ Throw(t, [call[t] EXCEPT !.cause = "resample"], log,
                       last_measurement_time_, filter_)
           \/ /\ \E pop \in ResampleOutcomes(filter_.samples, StageTarget(c)) :
                     /\ filter_' = [filter_ EXCEPT !.samples = pop]
                     /\ call' = [call EXCEPT ![t].log = log,
                                             ![t].multi_body_samples = pop,
                                             ![t].returned = pop,
                                             ![t].body_index = c.body_index + 1]
              /\ pc' = [pc EXCEPT ![t] = IF c.body_index + 1 < object_count
                                         THEN "stage_inject" ELSE "final_resample"]
              /\ UNCHANGED <<mutex_, done, failures>>
    /\ UNCHANGED <<params, last_measurement_time_, crashed, ncalls, session, initialized>>

\* lines 426-430: multi_body_samples[i] = initial_states[i]; filter_->Samples
FullSeed(t) ==
    /\ ~crashed /\ pc[t] = "full_seed"
    /\ LET seeded == [s \in 1 .. call[t].ncand |->
                         [o \in Objects(object_count) |-> CandidatePart(s, o)]]
       IN  /\ filter_' = [filter_ EXCEPT !.samples = seeded]
           /\ call' = [call EXCEPT
                  ![t].multi_body_samples = seeded,
                  ![t].log = Logged(t, Entry("Samples", Len(seeded), <<>>,
                                             filter_.blocks, 0))]
    /\ pc' = [pc EXCEPT ![t] = "full_filter"]
    /\ UNCHANGED <<params, last_measurement_time_, mutex_, crashed, ncalls,
                   session, initialized, done, failures>>

\* line 431
FullFilter(t) ==
    /\ ~crashed /\ pc[t] = "full_filter"
    /\ LET log == Logged(t, Entry("Filter",
                                  InitializationDeltaTime(last_measurement_time_),
                                  ZeroInput(object_count * BodyDim),
                                  ActiveSchedule(filter_), 0))
       IN  \/ /\ UNCHANGED filter_
              /\ \E cause \in StepFailures :
                     Throw(t, [call[t] EXCEPT !.cause = cause], log,
                           last_measurement_time_, filter_)
           \/ /\ \E pop \in FilterOutcomes(filter_.samples, ActiveSchedule(filter_),
                                           InitializationDeltaTime(last_measurement_time_),
                                           object_count) :
                     filter_' = [filter_ EXCEPT !.samples = pop]
              /\ call' = [call EXCEPT ![t].log = log]
              /\ pc' = [pc EXCEPT ![t] = "final_resample"]
              /\ UNCHANGED <<mutex_, done, failures>>
    /\ UNCHANGED <<params, last_measurement_time_, crashed, ncalls, session, initialized>>

\* line 433: filter_->Resample(evaluation_count/sampling_blocks.size())
FinalResample(t) ==
    /\ ~crashed /\ pc[t] = "final_resample"
    /\ LET target == OperatingSize(evaluation_count, sampling_blocks)
           log == Logged(t, Entry("Resample", target, <<>>, ActiveSchedule(filter_),
                                  call[t].body_index))
       IN  \/ /\ UNCHANGED filter_
              /\ Throw(t, [call[t] EXCEPT !.cause = "resample"], log,
                       last_measurement_time_, filter_)
           \/ /\ \E pop \in ResampleOutcomes(filter_.samples, target) :
                     filter_' = [filter_ EXCEPT !.samples = pop]
              /\ call' = [call EXCEPT ![t].log = log]
              /\ pc' = [pc EXCEPT ![t] = "install"]
              /\ UNCHANGED <<mutex_, done, failures>>
    /\ UNCHANGED <<params, last_measurement_time_, crashed, ncalls, session, initialized>>

\* lines 434-435: filter_->SamplingBlocks(sampling_blocks) and the return
InitializeReturn(t) ==
    /\ ~crashed /\ pc[t] = "install"
    /\ filter_' = [filter_ EXCEPT !.blocks = sampling_blocks]
    /\ call' = [call EXCEPT ![t] = NoCall]
    /\ done' = Ended(call[t], "ok",
                     Logged(t, Entry("SamplingBlocks", 0, <<>>, sampling_blocks,
                                     call[t].body_index)),
                     last_measurement_time_, filter_')
    /\ pc' = [pc EXCEPT ![t] = "idle"]
    /\ mutex_' = Unlocked(t)
    /\ initialized' = TRUE
    /\ session' = <<>>
    /\ UNCHANGED <<params, last_measurement_time_, crashed, ncalls, failures>>

\* ------------------------------------------------------------------ Filter
\* line 439; the frame is drawn here, where it is first read
FilterLock(t) ==
    /\ ~crashed /\ pc[t] = "filter_lock"
    /\ CanLock(mutex_)
    /\ mutex_' = mutex_ \cup {t}
    /\ \E stamp \in 1 .. MaxTime, rows \in FrameRows :
           call' = [call EXCEPT ![t].stamp = stamp,
                                ![t].rows = rows,
                                ![t].entry_clock = last_measurement_time_,
                                ![t].entry_exists = filter_.exists,
                                ![t].entry_rows = filter_.rows,
                                ![t].entry_samples = filter_.samples]
    /\ pc' = [pc EXCEPT ![t] = "filter_body"]
    /\ UNCHANGED <<params, last_measurement_time_, filter_, crashed, ncalls,
                   session, initialized, done, failures>>

\* an unset clock read as time zero
FirstClockZero(last, stamp) == IF last.nan THEN Num(0) ELSE last

\* lines 441-442: if(std::isnan(last_measurement_time_)) last_measurement_time_ = stamp
FirstClock(last, stamp) == IF last.nan THEN Num(stamp) ELSE last

\* line 443: delta_time = stamp - last_measurement_time_
DeltaTime(last, stamp) == stamp - last.v

\* a failure of the filter step that Filter turns into a normal return
CaughtDegenerate(cause) == cause = "degenerate"

\* lines 448-451: the filter step is called outside any try block, so Filter
\* catches no failure of it
Caught(cause) == FALSE

\* lines 441-450: the clock, the elapsed time, the image, the filter step
FilterBody(t) ==
    /\ ~crashed /\ pc[t] = "filter_body"
    /\ LET c == call[t]
           clock == FirstClock(last_measurement_time_, c.stamp)
           delta_time == DeltaTime(clock, c.stamp)
           log == Logged(t, Entry("Filter", delta_time,
                                  ZeroInput(object_count * BodyDim),
                                  ActiveSchedule(filter_), 0))
       IN  /\ last_measurement_time_' = clock
           /\ IF ~filter_.exists
              THEN \* filter_ is a null shared_ptr: the process is terminated
                   /\ crashed' = TRUE
                   /\ call' = [call EXCEPT ![t].delta_time = delta_time]
                   /\ UNCHANGED <<filter_, mutex_, pc, session, done, failures>>
              ELSE /\ UNCHANGED crashed
                   /\ \/ /\ UNCHANGED filter_
                         /\ session' = Append(session, [stamp |-> c.stamp,
                                                        delta |-> delta_time,
                                                        first |-> last_measurement_time_.nan,
                                                        ok |-> FALSE])
                         /\ \E cause \in StepFailures :
                                LET failed == [c EXCEPT !.delta_time = delta_time,
                                                        !.cause = cause]
                                IN  IF Caught(cause)
                                    THEN /\ call' = [call EXCEPT ![t] =
                                                        [failed EXCEPT !.log = log]]
                                         /\ pc' = [pc EXCEPT ![t] = "filter_return"]
                                         /\ UNCHANGED <<mutex_, done, failures>>
                                    ELSE Throw(t, failed, log, clock, filter_)
                      \/ /\ \E pop \in FilterOutcomes(filter_.samples,
                                                      ActiveSchedule(filter_),
                                                      delta_time, object_count) :
                                filter_' = [filter_ EXCEPT !.samples = pop]
                         /\ session' = Append(session, [stamp |-> c.stamp,
                                                        delta |-> delta_time,
                                                        first |-> last_measurement_time_.nan,
                                                        ok |-> TRUE])
                         /\ call' = [call EXCEPT ![t].log = log,
                                                 ![t].delta_time = delta_time]
                         /\ pc' = [pc EXCEPT ![t] = "filter_return"]
                         /\ UNCHANGED <<mutex_, done, failures>>
    /\ UNCHANGED <<params, ncalls, initialized>>

\* lines 455-465: the mean, the markers, the clock, the return
FilterReturn(t) ==
    /\ ~crashed /\ pc[t] = "filter_return"
    /\ last_measurement_time_' = Num(call[t].stamp)
    /\ call' = [call EXCEPT ![t] = NoCall]
    /\ done' = Ended(call[t], "ok", call[t].log, last_measurement_time_', filter_)
    /\ pc' = [pc EXCEPT ![t] = "idle"]
    /\ mutex_' = Unlocked(t)
    /\ UNCHANGED <<params, filter_, crashed, ncalls, session, initialized, failures>>

Next ==
    \E t \in Threads :
        \/ CallInitialize(t)
        \/ CallFilter(t)
        \/ InitializeLock(t)
        \/ InitializeSetup(t)
        \/ StageInject(t)
        \/ StageFilter(t)
        \/ StageResample(t)
        \/ FullSeed(t)
        \/ FullFilter(t)
        \/ FinalResample(t)
        \/ InitializeReturn(t)
        \/ FilterLock(t)
        \/ FilterBody(t)
        \/ FilterReturn(t)

Spec == Init /\ [][Next]_vars

SpecConcurrent == InitConcurrent /\ [][Next]_vars

SpecGpuBuild == InitGpuBuild /\ [][Next]_vars

\* =================================================== the controller node
\* the handler returns `result`: ros::spin takes the next request
Return(result, made) ==
    /\ answer' = [req |-> req, calls |-> made, result |-> result]
    /\ calls' = made
    /\ handler' = "spin"
    /\ req' = NoRequest

\* what the tracker service tracks after a call to it: the call's effect when
\* it succeeded, not known when it failed
Tracking(name, ok) == IF ok THEN name ELSE "unknown"

\* lines 79-85: a request arrives; "stop" is served by stop_object_tracker alone
track_object_srv ==
    /\ handler = "spin" /\ nreq < MaxRequests
    /\ nreq' = nreq + 1
    /\ \E r \in Requests :
           /\ req' = r
           /\ handler' = IF r.object_name = "stop" THEN "stop_only" ELSE "stop_first"
    /\ calls' = <<>>
    /\ pose' = NoPose
    /\ UNCHANGED <<instance, poses, tracking, answer>>

\* a handler that goes on after a failed stop
GoesOnAfterStop(stopped) == FALSE

\* lines 88-91: if (!stop_object_tracker()) return false
AbortsAfterStop(stopped) == ~stopped

\* lines 56-77, called from line 84 or line 88: the run-tracker service is
\* called with the name "stop"
stop_object_tracker ==
    /\ handler \in {"stop_only", "stop_first"}
    /\ \E ok \in BOOLEAN :
           LET made == Append(calls, Call("tracker", "stop", 0, ok))
           IN  /\ tracking' = Tracking("stopped", ok)
               /\ IF handler = "stop_only"
                  THEN Return(ok, made)
                  ELSE IF AbortsAfterStop(ok)
                       THEN Return(FALSE, made)
                       ELSE /\ calls' = made
                            /\ handler' = IF req.auto_detect THEN "find" ELSE "set_objects"
                            /\ UNCHANGED <<req, answer>>
    /\ UNCHANGED <<instance, pose, poses, nreq>>

\* line 139
AfterPose(r) == IF r.auto_confirm THEN "run" ELSE "wait"

\* lines 102-126: the finder service is called; without auto_confirm the pose
\* found is handed to the pose initializer; pose is the pose found
FindObject ==
    /\ handler = "find"
    /\ \/ \* the call fails
          /\ Return(FALSE, Append(calls, Call("finder", ObjFile(req.object_name), 0, FALSE)))
          /\ UNCHANGED <<pose, poses>>
       \/ \E found \in Poses :
              LET found_call == Call("finder", ObjFile(req.object_name), found, TRUE)
              IN  /\ IF req.auto_confirm
                     THEN /\ calls' = Append(calls, found_call)
                          /\ UNCHANGED poses
                     ELSE /\ calls' = calls \o << found_call,
                                 Call("initializer", "set_object", found, TRUE) >>
                          /\ poses' = found
                  /\ pose' = [header |-> "finder", pose |-> found]
                  /\ handler' = AfterPose(req)
                  /\ UNCHANGED <<req, answer>>
    /\ UNCHANGED <<instance, tracking, nreq>>

\* lines 127-137: the pose initializer places the object at a pose of its own
\* choice (none is given), and pose.pose is read from it
SetObjects ==
    /\ handler = "set_objects"
    /\ \E placed \in Poses :
           /\ poses' = placed
           /\ calls' = calls \o << Call("initializer", "set_objects", 0, TRUE),
                                   Call("initializer", "poses", placed, TRUE) >>
           /\ pose' = [pose EXCEPT !.pose = placed]
    /\ handler' = AfterPose(req)
    /\ UNCHANGED <<instance, req, tracking, answer, nreq>>

\* a wait whose interruption is not looked at
InterruptedNever(confirmed) == FALSE

\* lines 145-149: if (!object_initializer->wait_for_object_poses()) return false
Interrupted(confirmed) == ~confirmed

\* the pose read before the wait is kept
UnconfirmedPose(before, after) == before

\* line 153: pose.pose = object_initializer->poses()[0]
ConfirmedPose(before, after) == after

\* lines 139-154: the user moves the marker and confirms, or the wait is
\* interrupted; the pose is read again after the wait
WaitForObjectPoses ==
    /\ handler = "wait"
    /\ \E moved \in Poses, confirmed \in BOOLEAN :
           LET waited == Append(calls, Call("initializer", "wait_for_object_poses",
                                            0, confirmed))
           IN  /\ poses' = moved
               /\ IF Interrupted(confirmed)
                  THEN /\ Return(FALSE, waited)
                       /\ UNCHANGED pose
                  ELSE /\ calls' = Append(waited, Call("initializer", "poses", moved, TRUE))
                       /\ pose' = [pose EXCEPT !.pose = ConfirmedPose(pose.pose, moved)]
                       /\ handler' = "run"
                       /\ UNCHANGED <<req, answer>>
    /\ UNCHANGED <<instance, tracking, nreq>>

\* lines 156-171: the run-tracker service is called for the object with pose
RunObjectTracker ==
    /\ handler = "run"
    /\ \E ok \in BOOLEAN :
           /\ tracking' = Tracking(ObjFile(req.object_name), ok)
           /\ Return(ok, Append(calls, Call("tracker", ObjFile(req.object_name),
                                             pose.pose, ok)))
    /\ UNCHANGED <<instance, pose, poses, nreq>>

NextController ==
    \/ track_object_srv
    \/ stop_object_tracker
    \/ FindObject
    \/ SetObjects
    \/ WaitForObjectPoses
    \/ RunObjectTracker

\* the node after main (lines 174-213) has set up the initializer, the service
\* and the two clients; no tracker instance lives in this process
InitController == Start /\ callers = {} /\ budget = 0 /\ build_gpu = FALSE
                        /\ object_count = 1 /\ evaluation_count = 1
                        /\ sampling_blocks = DependentSamplingBlocks(1)

SpecController == InitController /\ [][NextController]_vars

\* the steps of a call of thread t, from waiting for the lock to the return
Run(t) ==
    \/ InitializeLock(t)
    \/ InitializeSetup(t)
    \/ StageInject(t)
    \/ StageFilter(t)
    \/ StageResample(t)
    \/ FullSeed(t)
    \/ FullFilter(t)
    \/ FinalResample(t)
    \/ InitializeReturn(t)
    \/ FilterLock(t)
    \/ FilterBody(t)
    \/ FilterReturn(t)

\* Two threads on an instance with a valid configuration of one block per
\* object; the lock does not depend on the configuration.
InitLock ==
    /\ InitConcurrent
    /\ sampling_blocks = PerObjectBlocks(object_count)
    /\ evaluation_count = MaxEval

\* A thread that can take the next step of its call takes it: the scheduler
\* runs every runnable thread, and no step of a call waits for anything but
\* the lock.  Nothing obliges a thread to make a call.
SpecLock == InitLock /\ [][Next]_vars /\ \A t \in Threads : WF_vars(Run(t))

\* ================================================================= claims
\* the entries of `log` with operation `op` that were not ended by an exception
Completed(log, op) ==
    { i \in DOMAIN log :
          log[i].op = op /\ (i < Len(log) => log[i + 1].op # "throw") }

IsResample(e) == e.op = "Resample"
IsFilter(e) == e.op = "Filter"
IsSamples(e) == e.op = "Samples"

PartialInitializeDone ==
    done.op = "Initialize" /\ done.result = "ok" /\ done.partial

\* the trace of a staged initialization whose stages resample to `target`:
\* per object b, in index order, Samples, Filter, Resample(target); then the
\* final Resample to the operating size and the configured schedule
StagedTrace(log, k, target) ==
    /\ Len(log) = 3 * k + 3
    /\ Len(SelectSeq(log, IsResample)) = k + 1
    /\ \A b \in Objects(k) :
           /\ IsSamples(log[3 * b + 2]) /\ log[3 * b + 2].body = b
           /\ IsFilter(log[3 * b + 3]) /\ log[3 * b + 3].body = b
           /\ IsResample(log[3 * b + 4]) /\ log[3 * b + 4].body = b
           /\ log[3 * b + 4].n = target
    /\ IsResample(log[3 * k + 2])
    /\ log[3 * k + 2].n = evaluation_count \div Len(sampling_blocks)

\* the configuration section 7 accepts: a positive operating size and a
\* schedule that names each of the 6k state indices exactly once
ValidConfig ==
    /\ evaluation_count \div Len(sampling_blocks) > 0
    /\ CoversExactlyOnce(sampling_blocks, object_count)

\* C1 as stated: a staged initialization of k objects performs k resample cycles
\* to the population size M (the operating size), one per object in index
\* order, each after the object's filter step, all before the final resample.
\* Stated for valid configurations only, so that no rejected configuration
\* decides it.
C1_StagesResampleToM ==
    (PartialInitializeDone /\ ValidConfig) =>
        StagedTrace(done.log, object_count,
                    evaluation_count \div Len(sampling_blocks))

\* C1 amended: the k stage resamples are to the number of candidates
\* initial_states.size(), whatever the operating size; only the final one is
\* to the operating size.
C1_StagesResampleToCandidateCount ==
    PartialInitializeDone => StagedTrace(done.log, object_count, done.ncand)

C1_Witness ==
    /\ PartialInitializeDone
    /\ object_count = 2
    /\ done.ncand # evaluation_count \div Len(sampling_blocks)

FilterDone == done.op = "Filter" /\ done.result = "ok"

\* C2: an update that returns ran exactly one filter step, with the elapsed
\* time stamp - clock at entry (0 when the clock was unset) and a zero control
\* input, and left the clock at the frame's stamp.
C2_UpdateElapsedTime ==
    FilterDone =>
        /\ Len(done.log) = 1
        /\ IsFilter(done.log[1])
        /\ done.log[1].n = IF done.entry_clock.nan THEN 0
                           ELSE done.stamp - done.entry_clock.v
        /\ done.log[1].control = [i \in 1 .. 6 * object_count |-> 0]
        /\ done.exit_clock = Num(done.stamp)

C2_Witness ==
    /\ FilterDone
    /\ ~done.entry_clock.nan
    /\ done.log[1].n > 0

\* C3 as stated: the first update after an initialize completes runs its
\* filter step with elapsed time 0, whatever the instance served before.
\* Stated for valid configurations and runs in which no call fails.
C3_FirstFrameZeroElapsed ==
    (ValidConfig /\ ~failures /\ initialized /\ session # <<>>) =>
        session[1].delta = 0

\* the elapsed times of the filter steps when `frames` are fed to an instance
\* whose clock is `clock`
RECURSIVE ElapsedTimes(_, _)
ElapsedTimes(clock, frames) ==
    IF frames = <<>> THEN <<>>
    ELSE <<DeltaTime(FirstClock(clock, Head(frames)), Head(frames))>>
             \o ElapsedTimes(Num(Head(frames)), Tail(frames))

Stamps(steps) == [i \in DOMAIN steps |-> steps[i].stamp]
Deltas(steps) == [i \in DOMAIN steps |-> steps[i].delta]

\* C4 as stated: the elapsed times of the frames fed after initialization, and
\* the clock they leave, are those of the run that made no update call before
\* the initialization completed (the run whose clock is unset when Initialize
\* returns); so any two runs that differ only in such calls agree.  Stated
\* for runs in which no call fails.
C4_UpdatesBeforeInitIgnored ==
    (/\ ValidConfig /\ ~failures /\ initialized /\ session # <<>>) =>
        /\ Deltas(session) = ElapsedTimes(NaN, Stamps(session))
        /\ (\A t \in Threads : pc[t] = "idle") =>
               last_measurement_time_ = Num(session[Len(session)].stamp)

InCall(t) == pc[t] \notin {"idle", "init_lock", "filter_lock"}

\* C5: at most one call is between acquiring the instance's lock and
\* returning, and that call holds the lock.
C5_CallsSerialized ==
    /\ Cardinality({t \in Threads : InCall(t)}) <= 1
    /\ mutex_ = {t \in Threads : InCall(t)}

C5_Witness ==
    \E t, u \in Threads :
        /\ pc[t] = "stage_filter"
        /\ pc[u] = "filter_lock"

\* C6 as stated: an update whose frame does not have the dimensions the
\* session's observation model was built with completes no filter step, keeps
\* the belief, and ends in a failure.
C6_MismatchRejected ==
    (/\ ValidConfig /\ initialized
     /\ done.op = "Filter"
     /\ done.entry_exists
     /\ Ros2Eigen(done.rows, downsampling_factor_) # done.entry_rows) =>
        /\ Completed(done.log, "Filter") = {}
        /\ done.belief_kept
        /\ done.result = "exception"

\* C7 as stated: with a configuration that is not valid, an initialize call
\* completes no filter step and no resample, hands no samples to the filter,
\* does not return normally, and no session begins.
C7_InvalidConfigRejected ==
    ~ValidConfig =>
        /\ ~initialized
        /\ done.op = "Initialize" =>
               /\ done.result = "exception"
               /\ Completed(done.log, "Filter") = {}
               /\ Completed(done.log, "Resample") = {}
               /\ Completed(done.log, "Samples") = {}

InitializeLogs ==
    { call[t].log : t \in {u \in Threads : call[u].op = "Initialize" /\ call[u].partial} }
        \cup (IF done.op = "Initialize" /\ done.partial THEN {done.log} ELSE {})

\* C8 as stated: the filter step of stage b runs with the schedule made of the
\* block of object b alone.
C8_StageScheduleIsObjectBlock ==
    \A log \in InitializeLogs : \A i \in DOMAIN log :
        IsFilter(log[i]) => log[i].sched = << ObjectBlock(log[i].body) >>

\* C8 amended: the filter step of every stage runs with the single block of
\* all 6k state indices, which is the block of object b only when k = 1.
C8_StageScheduleIsFullJoint ==
    \A log \in InitializeLogs : \A i \in DOMAIN log :
        IsFilter(log[i]) =>
            log[i].sched = << [x \in 1 .. 6 * object_count |-> x - 1] >>

C8_Witness ==
    /\ PartialInitializeDone
    /\ object_count = 2
    /\ sampling_blocks = PerObjectBlocks(2)
    /\ \E i \in DOMAIN done.log : IsFilter(done.log[i]) /\ done.log[i].body = 1

\* C9: when the samples of stage b are handed to the filter, every sample holds
\* its candidate in slot b, in the slots before b what the resample of stage
\* b-1 returned, and the out-of-image pose in the slots after b; no slot but b
\* differs from the population the stage started with.
C9_StageSamples ==
    \A t \in Threads :
        pc[t] = "stage_filter" =>
            LET c == call[t]
                b == c.body_index
                pop == filter_.samples
            IN  /\ Len(pop) = Len(c.returned)
                /\ \A s \in DOMAIN pop :
                       /\ pop[s][b] = Candidate(s)
                       /\ \A j \in Objects(object_count) :
                              /\ j # b => pop[s][j] = c.returned[s][j]
                              /\ j > b => pop[s][j] = Sentinel
                              /\ j < b => pop[s][j].kind = "candidate"

C9_Witness ==
    \E t \in Threads :
        /\ pc[t] = "stage_filter"
        /\ call[t].body_index = 1
        /\ Len(filter_.samples) = 2
        /\ filter_.samples[2][0] = Candidate(1)
        /\ filter_.samples[2][1] = Candidate(2)

FullInitializeDone ==
    done.op = "Initialize" /\ done.result = "ok" /\ ~done.partial

\* C10: a full-state initialize seeds the population with the candidates, runs
\* one filter step, resamples once to the operating size, both under the
\* single block of all 6k indices, then installs the configured schedule.
C10_FullStateOrder ==
    FullInitializeDone =>
        LET log == done.log
            joint == << [x \in 1 .. 6 * object_count |-> x - 1] >>
        IN  /\ Len(log) = 5
            /\ log[1].op = "SamplingBlocks" /\ log[1].sched = joint
            /\ IsSamples(log[2]) /\ log[2].n = done.ncand
            /\ IsFilter(log[3]) /\ log[3].sched = joint
            /\ IsResample(log[4]) /\ log[4].sched = joint
            /\ log[4].n = evaluation_count \div Len(sampling_blocks)
            /\ log[5].op = "SamplingBlocks" /\ log[5].sched = sampling_blocks

C10_Witness ==
    /\ FullInitializeDone
    /\ object_count = 2
    /\ Len(sampling_blocks) = 2
    /\ evaluation_count = 2

\* C11: an update whose filter step ends with a degenerate population (every
\* weight zero or non-finite after scoring) ends in a failure raised to the
\* caller: the step does not count as completed, and the call never reaches
\* the statements that compute and return the mean.
C11_DegenerateIsFatal ==
    /\ (done.op = "Filter" /\ done.cause = "degenerate") =>
           /\ done.result = "exception"
           /\ Completed(done.log, "Filter") = {}
    /\ \A t \in Threads :
           (call[t].op = "Filter" /\ pc[t] = "filter_return") =>
               call[t].cause = "none"

C11_Witness ==
    /\ ValidConfig
    /\ initialized
    /\ done.op = "Filter"
    /\ done.cause = "degenerate"
    /\ done.result = "exception"

\* C12 as stated: a call leaves the clock as it found it unless it is an update
\* whose filter step succeeded; in particular an update whose filter step
\* fails leaves it unset if it was unset.
\* Stated for valid configurations and instances with a session.
C12_ClockOnlyOnSuccess ==
    (/\ ValidConfig /\ initialized
     /\ done.op \in {"Filter", "Initialize"}
     /\ ~(done.op = "Filter" /\ done.result = "ok")) =>
        done.exit_clock = done.entry_clock

AllInitializeLogs ==
    { call[t].log : t \in {u \in Threads : call[u].op = "Initialize"} }
        \cup (IF done.op = "Initialize" THEN {done.log} ELSE {})

\* C13: every filter step an initialize call invokes, in full-state mode and
\* in every stage of partial-state mode, gets elapsed time 0 and a control
\* input of 6k zeros, whatever the clock holds.
C13_InitializationStepsZero ==
    \A log \in AllInitializeLogs : \A i \in DOMAIN log :
        IsFilter(log[i]) =>
            /\ log[i].n = 0
            /\ log[i].control = [j \in 1 .. 6 * object_count |-> 0]

\* a second stage's step invoked while the clock holds the stamp of an
\* earlier update
C13_Witness ==
    \E t \in Threads :
        /\ pc[t] = "stage_resample"
        /\ call[t].body_index = 1
        /\ ~last_measurement_time_.nan
        /\ Len(SelectSeq(call[t].log, IsFilter)) = 2

Waiting(t) == pc[t] \in {"init_lock", "filter_lock"}

\* C14: the lock is held by no thread while no call is past its acquisition;
\* the step that ends a call, a return or an exception, leaves the lock not
\* held by the caller; and a call waiting for the lock gets it, unless the
\* process is terminated first (an update of an instance that was never
\* initialized).
C14_LockReleased ==
    /\ []((\A t \in Threads : ~InCall(t)) => mutex_ = {})
    /\ [][\A t \in Threads : (InCall(t) /\ ~InCall(t)') => t \notin mutex_']_vars
    /\ \A t \in Threads : Waiting(t) ~> (InCall(t) \/ crashed)

\* a call holds the lock after the call before it ended in a failure of a
\* resampling
C14_Witness ==
    \E t \in Threads :
        /\ InCall(t)
        /\ t \in mutex_
        /\ done.result = "exception"
        /\ done.cause = "resample"

IsStop(c) == c.to = "tracker" /\ c.name = "stop"
IsRun(c) == c.to = "tracker" /\ c.name # "stop"
IsFind(c) == c.to = "finder"
IsWait(c) == c.to = "initializer" /\ c.name = "wait_for_object_poses"
IsPoseRead(c) == c.to = "initializer" /\ c.name = "poses"

\* a request has ended and the next has not begun
Answered == handler = "spin" /\ answer.req # NoRequest

\* C15: the first call of every request is the tracker stop request.  For an
\* object other than "stop", a failed stop ends the request with false and no
\* further call; for "stop" it is the only call and its outcome is the result.
C15_StopFirst ==
    /\ calls # <<>> => IsStop(calls[1])
    /\ Answered =>
           LET cs == answer.calls
           IN  /\ cs # <<>> /\ IsStop(cs[1])
               /\ (answer.req.object_name # "stop" /\ ~cs[1].ok) =>
                      (Len(cs) = 1 /\ answer.result = FALSE)
               /\ answer.req.object_name = "stop" =>
                      (Len(cs) = 1 /\ answer.result = cs[1].ok)

C15_Witness ==
    /\ Answered
    /\ answer.req.object_name = "box"
    /\ answer.req.auto_detect
    /\ ~answer.calls[1].ok
    /\ answer.result = FALSE

\* the calls of a request `r` obey the order of C16: at most one run-tracker
\* call, after a pose was obtained and, without auto_confirm, after a wait
\* that returned true
RunAfterPose(r, cs) ==
    LET runs == { i \in DOMAIN cs : IsRun(cs[i]) }
    IN  /\ Cardinality(runs) <= 1
        /\ \A i \in runs :
               /\ cs[i].name = ObjFile(r.object_name)
               /\ \E j \in 1 .. (i - 1) :
                      (IsFind(cs[j]) /\ cs[j].ok) \/ IsPoseRead(cs[j])
               /\ ~r.auto_confirm =>
                      \E j \in 1 .. (i - 1) : IsWait(cs[j]) /\ cs[j].ok

\* C16: the run-tracker call for the object is made at most once per request,
\* after a pose was obtained and after the confirmation when one is asked
\* for; a request whose finder call fails or whose wait is interrupted returns
\* false, makes no run-tracker call, and leaves the tracker stopped.
C16_RunOnceAfterPose ==
    /\ req # NoRequest => RunAfterPose(req, calls)
    /\ Answered =>
           LET cs == answer.calls
           IN  /\ RunAfterPose(answer.req, cs)
               /\ (\E j \in DOMAIN cs : (IsFind(cs[j]) \/ IsWait(cs[j])) /\ ~cs[j].ok) =>
                      /\ answer.result = FALSE
                      /\ \A i \in DOMAIN cs : ~IsRun(cs[i])
                      /\ tracking = "stopped"

C16_Witness ==
    /\ Answered
    /\ nreq = 2
    /\ ~answer.req.auto_confirm
    /\ \E j \in DOMAIN answer.calls : IsWait(answer.calls[j]) /\ ~answer.calls[j].ok
    /\ tracking = "stopped"

\* C17: the pose of the run-tracker request is the pose the finder returned
\* when auto_detect and auto_confirm are both set, and no pose of the
\* initializer is read then; otherwise it is the pose last read from the
\* initializer, and without auto_confirm that read comes after the wait.
C17_RunPose ==
    Answered =>
        LET cs == answer.calls
            r == answer.req
        IN  \A i \in DOMAIN cs :
                IsRun(cs[i]) =>
                    IF r.auto_detect /\ r.auto_confirm
                    THEN /\ \A j \in DOMAIN cs : cs[j].to # "initializer"
                         /\ \E j \in 1 .. (i - 1) :
                                IsFind(cs[j]) /\ cs[i].pose = cs[j].pose
                    ELSE LET reads == { j \in 1 .. (i - 1) : IsPoseRead(cs[j]) }
                         IN  /\ reads # {}
                             /\ \E last \in reads :
                                    /\ \A j \in reads : j <= last
                                    /\ cs[i].pose = cs[last].pose
                                    /\ ~r.auto_confirm =>
                                           \E w \in 1 .. (last - 1) : IsWait(cs[w])

\* the marker was moved during the wait: the pose read before it differs
\* from the pose sent
C17_Witness ==
    /\ Answered
    /\ ~answer.req.auto_detect /\ ~answer.req.auto_confirm
    /\ \E i, j \in DOMAIN answer.calls :
           /\ IsRun(answer.calls[i])
           /\ IsPoseRead(answer.calls[j])
           /\ answer.calls[j].pose # answer.calls[i].pose

\* thread t is about to hand the population to the scorer in a filter step
AboutToScore(t) ==
    \/ pc[t] \in {"stage_filter", "full_filter"}
    \/ pc[t] = "filter_body" /\ filter_.exists

\* C18 as stated: the population handed to the scorer in a filter step, of an
\* initialization or of an update, is no larger than the capacity the scorer
\* was constructed with.  Stated for valid configurations and runs in which
\* no call fails, and for the GPU scorer only when the configured
\* max_sample_count is at least the number of candidates and the operating
\* size.
C18_WithinCapacity ==
    \A t \in Threads :
        (/\ ValidConfig /\ ~failures
         /\ AboutToScore(t)
         /\ filter_.gpu =>
                /\ filter_.capacity >= OperatingSize(evaluation_count, sampling_blocks)
                /\ call[t].op = "Initialize" => filter_.capacity >= call[t].ncand) =>
            Len(filter_.samples) <= filter_.capacity

InStage(t) ==
    /\ call[t].op = "Initialize" /\ call[t].partial
    /\ pc[t] \in {"stage_inject", "stage_filter", "stage_resample"}

\* C19: in every stage of a partial-state initialization the working
\* population has as many samples as there are candidates, at the start of
\* the stage and after its candidates were written; no slot of any sample
\* holds a value read past the end of initial_states; and sample i holds
\* candidate i in the slot of the stage's object.
C19_StageSizeIsCandidateCount ==
    \A t \in Threads :
        InStage(t) =>
            LET c == call[t]
            IN  /\ Len(c.multi_body_samples) = c.ncand
                /\ \A s \in DOMAIN c.multi_body_samples : \A o \in Objects(object_count) :
                       c.multi_body_samples[s][o].kind # "out_of_bounds"
                /\ pc[t] = "stage_filter" =>
                       \A s \in DOMAIN c.multi_body_samples :
                           /\ s <= c.ncand
                           /\ c.multi_body_samples[s][c.body_index].kind = "candidate"
                           /\ c.multi_body_samples[s][c.body_index].idx = s

\* the second stage starts with two candidates while the operating size is
\* not two
C19_Witness ==
    \E t \in Threads :
        /\ InStage(t)
        /\ pc[t] = "stage_inject"
        /\ call[t].body_index = 1
        /\ call[t].ncand = 2
        /\ evaluation_count \div Len(sampling_blocks) # 2

IsOk(step) == step.ok

RECURSIVE Sum(_)
Sum(seq) == IF seq = <<>> THEN 0 ELSE Head(seq) + Sum(Tail(seq))

NonDecreasing(seq) == \A i, j \in DOMAIN seq : i < j => seq[i] <= seq[j]

\* C20 as stated: when the successful updates of an instance have
\* non-decreasing stamps, each of their filter steps got a non-negative
\* elapsed time and the elapsed times sum to the last stamp minus the first;
\* and a successful update with a frame older than the clock got a negative
\* elapsed time.  Stated for valid configurations and for the updates of an
\* instance from its first on (no initialize call returned in between).
C20_ElapsedTimesTelescope ==
    /\ (ValidConfig /\ initialized /\ session # <<>> /\ session[1].first) =>
           LET ok == SelectSeq(session, IsOk)
           IN  (ok # <<>> /\ NonDecreasing(Stamps(ok))) =>
                   /\ \A i \in DOMAIN ok : ok[i].delta >= 0
                   /\ Sum(Deltas(ok)) = ok[Len(ok)].stamp - ok[1].stamp
    /\ (FilterDone /\ ~done.entry_clock.nan /\ done.stamp < done.entry_clock.v) =>
           done.delta_time < 0

====
